---- MODULE Spec2Model ----
(***************************************************************************)
(* ghc-eventlog-socket: the connection state (mutex, client_fd), the       *)
(* EventLogWriter callbacks writer_write / writer_stop, the listener       *)
(* thread listen_socket, and the entry point eventlog_socket_start with    *)
(* open_socket and wait_for_connection.  The kernel side (descriptor       *)
(* table, peers, byte streams) is the environment of these functions.      *)
(***************************************************************************)
EXTENDS Integers, Sequences, FiniteSets, TLC

\* ---- bounds of the model -------------------------------------------------
MaxLen    == 2     \* largest sz passed to writer_write
MaxEvents == 4     \* events from outside in one run: peers connecting, producer
                   \* calls of writer_write and writer_stop, and faults (accept
                   \* failure, poll EINTR/EAGAIN, write error, spurious wakeup)

\* ---- threads ---------------------------------------------------------------
L == "L"                       \* listen_thread
S == "S"                       \* the caller of eventlog_socket_start
Prod == {"p1", "p2"}           \* producer threads calling the EventLogWriter
Threads == {L, S} \cup Prod
Free == "free"                 \* mutex owner when unlocked

Conns == 1 .. MaxEvents         \* identities of connecting peers
Fds == 1 .. MaxEvents          \* descriptor numbers accept can return
NoFd == -1

VARIABLES
  pc,           \* position of every thread
  initialized,  \* static bool initialized
  mutex,        \* owner of the pthread mutex, or Free
  client_fd,    \* static volatile int client_fd
  listen_fd,    \* static int listen_fd (0 once the socket exists)
  listening,    \* listen() has succeeded on listen_fd
  fd,           \* the local `fd` of listen_socket (accept's result)
  pfd,          \* pfd.fd of listen_socket
  published,    \* the listener has stored `fd` into client_fd in this iteration
  wcall,        \* the serial number of each writer_write call
  wfd,          \* the local `fd` of each writer_write call
  wlen,         \* the sz each writer_write call was given
  wsz,          \* the remaining sz of each writer_write call
  wtag,         \* the connection that client_fd named when the call read it
  wsent,        \* bytes the call has put on a socket, in order
  wret,         \* the value the last writer_write call returned
  wout,         \* how the last writer_write call ended
  fdtab,        \* kernel: descriptor -> connection (0 = closed)
  nclose,       \* kernel: close(2) calls that closed each connection's socket
  conn,         \* peer state: "none", "pending", "estab"
  hung,         \* the peer has closed its end
  pendingQ,     \* the accept queue of listen_fd
  recv,         \* bytes each connected peer has received
  status,       \* eventLogStatus(): "unsupported", "running", "stopped"
  sock_path,    \* an address is available (argument or GHC_EVENTLOG_SOCKET)
  wait,         \* the `wait` argument
  aborted,      \* abort() was called
  nevents       \* events from outside so far

vars == << pc, initialized, mutex, client_fd, listen_fd, listening, fd, pfd,
           published, wcall, wfd, wlen, wsz, wtag, wsent, wret, wout, fdtab,
           nclose, conn, hung, pendingQ, recv, status, sock_path, wait,
           aborted, nevents >>

kernelVars == << fdtab, nclose, conn, hung, pendingQ, recv >>
writerVars == << wcall, wfd, wlen, wsz, wtag, wsent, wret, wout >>
startVars  == << initialized, listen_fd, status, sock_path, wait >>
listenVars == << listening, fd, pfd, published >>
budgetVars == << nevents >>

\* ---- kernel helpers --------------------------------------------------------
\* The connection a descriptor value refers to (0: none, closed or invalid).
ConnOf(f) == IF f \in Fds THEN fdtab[f] ELSE 0

\* accept returns the lowest free descriptor.
LowestFree == CHOOSE f \in Fds : fdtab[f] = 0 /\ \A g \in Fds : fdtab[g] = 0 => f <= g

\* The byte at index i of the buffer of the c-th writer_write call, which read
\* connection t as the current client.
Byte(c, t, i) == << c, t, i >>

\* buffer[from+1 .. from+n] of that call
Chunk(c, t, from, n) == [i \in 1 .. n |-> Byte(c, t, from + i)]

\* The producer threads are interchangeable: a new call is made on the first
\* idle one.
FirstIdle(p) == pc[p] = "idle" /\ (p = "p2" => pc["p1"] # "idle")

\* A descriptor value on which I/O cannot succeed: not open, or its peer has
\* closed.
Dead(f) == IF ConnOf(f) = 0 THEN TRUE ELSE hung[ConnOf(f)]

Goto(t, l) == pc' = [pc EXCEPT ![t] = l]

\* One more event from outside, while the run's budget lasts.
Event == nevents < MaxEvents /\ nevents' = nevents + 1

Init ==
  /\ pc = [t \in Threads |-> IF t = L THEN "unspawned"
                             ELSE IF t = S THEN "entry" ELSE "idle"]
  /\ initialized = FALSE
  /\ mutex = Free
  /\ client_fd = NoFd
  /\ listen_fd = NoFd
  /\ listening = FALSE
  /\ fd = NoFd
  /\ pfd = NoFd
  /\ published = FALSE
  /\ wcall = [p \in Prod |-> 0]
  /\ wfd = [p \in Prod |-> NoFd]
  /\ wlen = [p \in Prod |-> 0]
  /\ wsz = [p \in Prod |-> 0]
  /\ wtag = [p \in Prod |-> 0]
  /\ wsent = [p \in Prod |-> << >>]
  /\ wret = [p \in Prod |-> TRUE]
  /\ wout = [p \in Prod |-> "nocall"]
  /\ fdtab = [f \in Fds |-> 0]
  /\ nclose = [k \in Conns |-> 0]
  /\ conn = [k \in Conns |-> "none"]
  /\ hung = [k \in Conns |-> FALSE]
  /\ pendingQ = << >>
  /\ recv = [k \in Conns |-> << >>]
  /\ status \in {"unsupported", "running", "stopped"}
  /\ sock_path \in BOOLEAN
  /\ wait \in BOOLEAN
  /\ aborted = FALSE
  /\ nevents = 0

\* ---- EventLogWriter: writer_write (lines 40-64) ----------------------------
\* A writer_write that reports a failed write to the producer.
WriteResult_reports_error(outcome) == outcome # "error"

\* The value writer_write returns on each of its three paths: `return true`
\* at lines 46, 56 and 63.
WriteResult(outcome) == TRUE

\* A test that lets the value -1 through.
NoClient_off_by_one(f) == f < -1

\* if (fd < 0) at line 44
NoClient(f) == f < 0

\* A writer_write that lets go of the mutex once it has read client_fd.
writer_write_lock_released(p) ==
  /\ ~aborted /\ initialized
  /\ FirstIdle(p)
  /\ Event
  /\ mutex = Free
  /\ ~NoClient(client_fd)
  /\ mutex' = Free
  /\ \E n \in 1 .. MaxLen :
       /\ wlen' = [wlen EXCEPT ![p] = n]
       /\ wsz' = [wsz EXCEPT ![p] = n]
  /\ wcall' = [wcall EXCEPT ![p] = nevents + 1]
  /\ wfd' = [wfd EXCEPT ![p] = client_fd]
  /\ wtag' = [wtag EXCEPT ![p] = ConnOf(client_fd)]
  /\ wout' = [wout EXCEPT ![p] = "running"]
  /\ Goto(p, "w_loop")
  /\ UNCHANGED << client_fd, wsent, wret, kernelVars, startVars, listenVars,
                  aborted >>

\* A producer thread calls writer_write(eventlog, n) and gets the mutex:
\* pthread_mutex_lock; int fd = client_fd; if (fd < 0) { unlock; return true; }
\* (lines 40-47).  A caller that waits for the mutex has no effect until it
\* gets it, so the call and the lock are one step.
writer_write_lock(p) ==
  /\ ~aborted /\ initialized
  /\ FirstIdle(p)
  /\ Event
  /\ mutex = Free
  /\ IF NoClient(client_fd)
       THEN /\ mutex' = Free
            /\ wret' = [wret EXCEPT ![p] = WriteResult("noclient")]
            /\ wout' = [wout EXCEPT ![p] = "noclient"]
            /\ Goto(p, "w_ret")
            /\ UNCHANGED << wcall, wfd, wlen, wsz, wtag >>
       ELSE /\ mutex' = p
            /\ \E n \in 1 .. MaxLen :
                 /\ wlen' = [wlen EXCEPT ![p] = n]
                 /\ wsz' = [wsz EXCEPT ![p] = n]
            /\ wcall' = [wcall EXCEPT ![p] = nevents + 1]
            /\ wfd' = [wfd EXCEPT ![p] = client_fd]
            /\ wtag' = [wtag EXCEPT ![p] = ConnOf(client_fd)]
            /\ wout' = [wout EXCEPT ![p] = "running"]
            /\ Goto(p, "w_loop")
            /\ UNCHANGED wret
  /\ UNCHANGED << client_fd, wsent, kernelVars, startVars, listenVars,
                  aborted >>

\* writer_write returns: its locals and arguments are gone.
Locals_gone(p) ==
  /\ wcall' = [wcall EXCEPT ![p] = 0]
  /\ wfd' = [wfd EXCEPT ![p] = NoFd]
  /\ wlen' = [wlen EXCEPT ![p] = 0]
  /\ wsz' = [wsz EXCEPT ![p] = 0]
  /\ wtag' = [wtag EXCEPT ![p] = 0]
  /\ wsent' = [wsent EXCEPT ![p] = << >>]

\* The offset into the buffer that write(fd, eventlog, sz) at line 50 starts
\* from when sz of len bytes remain: eventlog is never advanced.
write_offset(len, sz) == 0

\* write(fd, eventlog, sz) returned n > 0; sz -= ret (lines 50, 59)
writer_write_some(p) ==
  /\ ~aborted
  /\ pc[p] = "w_loop"
  /\ wsz[p] > 0
  /\ ~Dead(wfd[p])
  /\ \E n \in 1 .. wsz[p] :
       LET k == ConnOf(wfd[p])
           bytes == Chunk(wcall[p], wtag[p], write_offset(wlen[p], wsz[p]), n)
       IN /\ recv' = [recv EXCEPT ![k] = @ \o bytes]
          /\ wsent' = [wsent EXCEPT ![p] = @ \o bytes]
          /\ wsz' = [wsz EXCEPT ![p] = @ - n]
  /\ UNCHANGED << pc, mutex, client_fd, wcall, wfd, wlen, wtag, wret, wout, fdtab,
                  nclose, conn, hung, pendingQ, startVars, listenVars,
                  aborted, budgetVars >>

\* A writer_write that drops the client when write(2) fails.
writer_write_fail_drops_client(p) ==
  /\ ~aborted
  /\ pc[p] = "w_loop"
  /\ wsz[p] > 0
  /\ Dead(wfd[p])
  /\ client_fd' = NoFd
  /\ mutex' = Free
  /\ wret' = [wret EXCEPT ![p] = TRUE]
  /\ wout' = [wout EXCEPT ![p] = "error"]
  /\ Locals_gone(p)
  /\ Goto(p, "w_ret")
  /\ UNCHANGED << kernelVars, startVars, listenVars, aborted, budgetVars >>

\* A writer_write whose error path returns without unlocking.
writer_write_fail_keeps_lock(p) ==
  /\ ~aborted
  /\ pc[p] = "w_loop"
  /\ wsz[p] > 0
  /\ \/ /\ Dead(wfd[p])
        /\ UNCHANGED nevents
     \/ /\ ~Dead(wfd[p])
        /\ Event
  /\ wret' = [wret EXCEPT ![p] = TRUE]
  /\ wout' = [wout EXCEPT ![p] = "error"]
  /\ Locals_gone(p)
  /\ Goto(p, "w_ret")
  /\ UNCHANGED << mutex, client_fd, kernelVars, startVars, listenVars,
                  aborted >>

\* write(...) returned -1: PRINT_ERR; unlock; return true (lines 51-57).
\* EBADF on a closed descriptor and EPIPE after the peer's hangup are forced;
\* any other error is an injected fault.
writer_write_fail(p) ==
  /\ ~aborted
  /\ pc[p] = "w_loop"
  /\ wsz[p] > 0
  /\ \/ /\ Dead(wfd[p])
        /\ UNCHANGED nevents
     \/ /\ ~Dead(wfd[p])
        /\ Event
  /\ mutex' = Free
  /\ wret' = [wret EXCEPT ![p] = WriteResult("error")]
  /\ wout' = [wout EXCEPT ![p] = "error"]
  /\ Locals_gone(p)
  /\ Goto(p, "w_ret")
  /\ UNCHANGED << client_fd, kernelVars, startVars, listenVars, aborted >>

\* sz == 0: leave the loop; unlock; return true (lines 49, 62-63)
writer_write_done(p) ==
  /\ ~aborted
  /\ pc[p] = "w_loop"
  /\ wsz[p] = 0
  /\ mutex' = Free
  /\ wret' = [wret EXCEPT ![p] = WriteResult("complete")]
  /\ wout' = [wout EXCEPT ![p] = "complete"]
  /\ Locals_gone(p)
  /\ Goto(p, "w_ret")
  /\ UNCHANGED << client_fd, kernelVars, startVars, listenVars, aborted,
                  budgetVars >>

\* The producer has the result of the call.
writer_write_return(p) ==
  /\ ~aborted
  /\ pc[p] = "w_ret"
  /\ wret' = [wret EXCEPT ![p] = TRUE]
  /\ wout' = [wout EXCEPT ![p] = "nocall"]
  /\ Goto(p, "idle")
  /\ UNCHANGED << mutex, client_fd, wcall, wfd, wlen, wsz, wtag, wsent,
                  kernelVars,
                  startVars, listenVars, aborted, budgetVars >>

\* ---- EventLogWriter: writer_stop (lines 71-79) -----------------------------
\* Where a thread continues when writer_stop returns.
AfterStop(t) == IF t = L THEN "listen" ELSE "idle"

\* pthread_mutex_lock; if (client_fd >= 0)   (lines 73-74).  The caller is
\* the listener inside endEventLogging, or a producer-side context (for which
\* the call and the lock are one step).
writer_stop_lock(t) ==
  /\ ~aborted
  /\ \/ /\ t = L
        /\ pc[t] = "s_lock"
        /\ UNCHANGED nevents
     \/ /\ t \in Prod
        /\ initialized
        /\ FirstIdle(t)
        /\ Event
  /\ mutex = Free
  /\ mutex' = t
  /\ Goto(t, IF client_fd >= 0 THEN "s_close" ELSE "s_clear")
  /\ UNCHANGED << client_fd, writerVars, kernelVars, startVars, listenVars,
                  aborted >>

\* close(client_fd), reading client_fd again (line 75)
writer_stop_close(t) ==
  /\ ~aborted
  /\ pc[t] = "s_close"
  /\ IF ConnOf(client_fd) # 0
       THEN /\ fdtab' = [fdtab EXCEPT ![client_fd] = 0]
            /\ nclose' = [nclose EXCEPT ![ConnOf(client_fd)] = @ + 1]
       ELSE UNCHANGED << fdtab, nclose >>
  /\ Goto(t, "s_clear")
  /\ UNCHANGED << mutex, client_fd, writerVars, conn, hung, pendingQ, recv,
                  startVars, listenVars, aborted, budgetVars >>

\* A writer_stop that unlocks without resetting client_fd.
writer_stop_clear_keeps_fd(t) ==
  /\ ~aborted
  /\ pc[t] = "s_clear"
  /\ mutex' = Free
  /\ Goto(t, AfterStop(t))
  /\ UNCHANGED << client_fd, writerVars, kernelVars, startVars, listenVars,
                  aborted, budgetVars >>

\* client_fd = -1; pthread_mutex_unlock (lines 77-78)
writer_stop_clear(t) ==
  /\ ~aborted
  /\ pc[t] = "s_clear"
  /\ client_fd' = NoFd
  /\ mutex' = Free
  /\ Goto(t, AfterStop(t))
  /\ UNCHANGED << writerVars, kernelVars, startVars, listenVars, aborted,
                  budgetVars >>

\* ---- listen_socket (lines 92-134) ------------------------------------------
\* listen(listen_fd, LISTEN_BACKLOG); abort() on failure (lines 95-98).
\* Only the first call can fail: re-arming a listening socket does not.
listen_socket_listen ==
  /\ ~aborted
  /\ pc[L] = "listen"
  /\ \/ /\ listening' = TRUE
        /\ Goto(L, "accept")
        /\ UNCHANGED aborted
     \/ /\ ~listening
        /\ aborted' = TRUE
        /\ UNCHANGED << pc, listening >>
  /\ UNCHANGED << mutex, client_fd, fd, pfd, published, writerVars,
                  kernelVars, startVars, budgetVars >>

\* int fd = accept(listen_fd, ...) returns a connection (line 102)
listen_socket_accept ==
  /\ ~aborted
  /\ pc[L] = "accept"
  /\ pendingQ # << >>
  /\ LET k == Head(pendingQ)
         f == LowestFree
     IN /\ fdtab' = [fdtab EXCEPT ![f] = k]
        /\ conn' = [conn EXCEPT ![k] = "estab"]
        /\ fd' = f
  /\ pendingQ' = Tail(pendingQ)
  /\ published' = FALSE
  /\ Goto(L, "lock")
  /\ UNCHANGED << mutex, client_fd, listening, pfd, writerVars, nclose, hung,
                  recv, startVars, aborted, budgetVars >>

\* accept fails and returns -1; the result is not checked (line 102)
listen_socket_accept_fail ==
  /\ ~aborted
  /\ pc[L] = "accept"
  /\ Event
  /\ fd' = NoFd
  /\ published' = FALSE
  /\ Goto(L, "lock")
  /\ UNCHANGED << mutex, client_fd, listening, pfd, writerVars, kernelVars,
                  startVars, aborted >>

\* pthread_mutex_lock; client_fd = fd (lines 103-104)
listen_socket_publish ==
  /\ ~aborted
  /\ pc[L] = "lock"
  /\ mutex = Free
  /\ mutex' = L
  /\ client_fd' = fd
  /\ published' = TRUE
  /\ Goto(L, "unlock")
  /\ UNCHANGED << listening, fd, pfd, writerVars, kernelVars, startVars,
                  aborted, budgetVars >>

\* A listener that calls the hook with the mutex still held.
listen_socket_unlock_missing ==
  /\ ~aborted
  /\ pc[L] = "unlock"
  /\ Goto(L, "start")
  /\ UNCHANGED << mutex, client_fd, listenVars, writerVars, kernelVars,
                  startVars, aborted, budgetVars >>

\* pthread_mutex_unlock (line 106)
listen_socket_unlock ==
  /\ ~aborted
  /\ pc[L] = "unlock"
  /\ mutex' = Free
  /\ Goto(L, "start")
  /\ UNCHANGED << client_fd, listenVars, writerVars, kernelVars, startVars,
                  aborted, budgetVars >>

\* startEventLogging(&socket_writer); pthread_cond_broadcast(&new_conn_cond)
\* (lines 107-110)
listen_socket_start ==
  /\ ~aborted
  /\ pc[L] = "start"
  /\ status' = "running"
  /\ pc' = [pc EXCEPT ![L] = "arm",
                      ![S] = IF pc[S] = "wf_wait" THEN "wf_woken" ELSE @]
  /\ UNCHANGED << mutex, client_fd, listenVars, writerVars, kernelVars,
                  initialized, listen_fd, sock_path, wait, aborted,
                  budgetVars >>

\* struct pollfd pfd = { .fd = client_fd, ... }, read without the mutex
\* (lines 113-117)
listen_socket_arm ==
  /\ ~aborted
  /\ pc[L] = "arm"
  /\ pfd' = client_fd
  /\ Goto(L, "poll")
  /\ UNCHANGED << mutex, client_fd, listening, fd, published, writerVars,
                  kernelVars, startVars, aborted, budgetVars >>

\* poll reports an event on pfd.fd (ret > 0): POLLRDHUP/POLLHUP once the peer
\* has closed, POLLNVAL on a descriptor that is not open.  A negative pfd.fd
\* is ignored by poll and never reports.
PollReady == pfd >= 0 /\ Dead(pfd)

\* poll(&pfd, 1, -1) returns > 0: break (lines 119, 124-126)
listen_socket_poll_ready ==
  /\ ~aborted
  /\ pc[L] = "poll"
  /\ PollReady
  /\ Goto(L, "clear")
  /\ UNCHANGED << mutex, client_fd, listenVars, writerVars, kernelVars,
                  startVars, aborted, budgetVars >>

\* errno != EAGAIN at line 120: is a failed poll treated as an error (break)?
PollErrorBreaks(e) == e # "EAGAIN"

\* poll returns -1 with errno e (lines 119-123); a signal gives EINTR
listen_socket_poll_error ==
  /\ ~aborted
  /\ pc[L] = "poll"
  /\ Event
  /\ \E e \in {"EINTR", "EAGAIN"} :
       Goto(L, IF PollErrorBreaks(e) THEN "clear" ELSE "poll")
  /\ UNCHANGED << mutex, client_fd, listenVars, writerVars, kernelVars,
                  startVars, aborted >>

\* A listener that goes round the loop without the teardown of lines 129-130.
listen_socket_clear_skipped ==
  /\ ~aborted
  /\ pc[L] = "clear"
  /\ Goto(L, "listen")
  /\ UNCHANGED << mutex, client_fd, listenVars, writerVars, kernelVars,
                  startVars, aborted, budgetVars >>

\* client_fd = -1, without the mutex (line 129); then endEventLogging()
\* (line 130): the producer stops emitting and calls the writer's
\* stopEventLogWriter, which is writer_stop (line 85)
listen_socket_clear ==
  /\ ~aborted
  /\ pc[L] = "clear"
  /\ client_fd' = NoFd
  /\ published' = FALSE
  /\ status' = "stopped"
  /\ Goto(L, "s_lock")
  /\ UNCHANGED << mutex, listening, fd, pfd, writerVars, kernelVars,
                  initialized, listen_fd, sock_path, wait, aborted,
                  budgetVars >>

\* ---- eventlog_socket_start, open_socket, wait_for_connection ---------------
\* An eventlog_socket_start that stops a running eventlog before it looks
\* for the address.
eventlog_socket_start_stops_first ==
  /\ ~aborted
  /\ pc[S] = "entry"
  /\ initialized' = TRUE
  /\ IF status = "unsupported"
       THEN /\ Goto(S, "returned")
            /\ UNCHANGED status
       ELSE /\ status' = "stopped"
            /\ Goto(S, IF sock_path THEN "open" ELSE "returned")
  /\ UNCHANGED << mutex, client_fd, listen_fd, sock_path, wait, listenVars,
                  writerVars, kernelVars, aborted, budgetVars >>

\* lines 259-283: one-time init, address lookup, status checks
eventlog_socket_start ==
  /\ ~aborted
  /\ pc[S] = "entry"
  /\ initialized' = TRUE
  /\ IF ~sock_path \/ status = "unsupported"
       THEN /\ Goto(S, "returned")
            /\ UNCHANGED status
       ELSE /\ status' = "stopped"
            /\ Goto(S, "open")
  /\ UNCHANGED << mutex, client_fd, listen_fd, sock_path, wait, listenVars,
                  writerVars, kernelVars, aborted, budgetVars >>

\* socket(); unlink; bind(); abort() when bind fails (lines 138-148)
open_socket_bind ==
  /\ ~aborted
  /\ pc[S] = "open"
  /\ \/ /\ listen_fd' = 0
        /\ Goto(S, "spawn")
        /\ UNCHANGED aborted
     \/ /\ aborted' = TRUE
        /\ UNCHANGED << pc, listen_fd >>
  /\ UNCHANGED << mutex, client_fd, initialized, status, sock_path, wait,
                  listenVars, writerVars, kernelVars, budgetVars >>

\* What open_socket does when pthread_create fails (lines 151-153): it logs
\* and returns.  TRUE would mean abort().
SpawnFailureAborts == FALSE

\* pthread_create(&listen_thread, ...) and the return into
\* eventlog_socket_start: if (wait) wait_for_connection() (lines 150-153, 286-289)
open_socket_spawn ==
  /\ ~aborted
  /\ pc[S] = "spawn"
  /\ \/ /\ pc' = [pc EXCEPT ![L] = "listen",
                            ![S] = IF wait THEN "wf_lock" ELSE "returned"]
        /\ UNCHANGED aborted
     \/ IF SpawnFailureAborts
          THEN aborted' = TRUE /\ UNCHANGED pc
          ELSE /\ Goto(S, IF wait THEN "wf_lock" ELSE "returned")
               /\ UNCHANGED aborted
  /\ UNCHANGED << mutex, client_fd, startVars, listenVars, writerVars,
                  kernelVars, budgetVars >>

\* while (client_fd == -1) at line 160
MustWait(c) == c = -1

\* pthread_mutex_lock at line 159, or the re-acquisition inside
\* pthread_cond_wait after a wakeup; then the loop test at line 160:
\* pthread_cond_wait releases the mutex and sleeps (line 161), or the loop
\* ends, unlock and return (line 163)
wait_for_connection_test ==
  /\ ~aborted
  /\ pc[S] \in {"wf_lock", "wf_woken"}
  /\ mutex = Free
  /\ mutex' = Free
  /\ Goto(S, IF MustWait(client_fd) THEN "wf_wait" ELSE "waited")
  /\ UNCHANGED << client_fd, startVars, listenVars, writerVars, kernelVars,
                  aborted, budgetVars >>

\* eventlog_socket_start returns after wait_for_connection (lines 289-290);
\* its arguments are gone.
eventlog_socket_start_return ==
  /\ ~aborted
  /\ pc[S] = "waited"
  /\ wait' = FALSE
  /\ Goto(S, "returned")
  /\ UNCHANGED << mutex, client_fd, initialized, listen_fd, status, sock_path,
                  listenVars, writerVars, kernelVars, aborted, budgetVars >>

\* a spurious wakeup of pthread_cond_wait (line 161)
wait_for_connection_spurious ==
  /\ ~aborted
  /\ pc[S] = "wf_wait"
  /\ Event
  /\ Goto(S, "wf_woken")
  /\ UNCHANGED << mutex, client_fd, startVars, listenVars, writerVars,
                  kernelVars, aborted >>

\* ---- the peers -------------------------------------------------------------
\* A consumer connects to the listening socket.
Connect ==
  /\ ~aborted
  /\ listening
  /\ Event
  /\ \E k \in Conns :
       /\ conn[k] = "none"
       /\ \A j \in Conns : j < k => conn[j] # "none"
       /\ conn' = [conn EXCEPT ![k] = "pending"]
       /\ pendingQ' = Append(pendingQ, k)
  /\ UNCHANGED << pc, mutex, client_fd, listenVars, writerVars, fdtab,
                  nclose, hung, recv, startVars, aborted >>

\* A consumer closes its end; what it had received goes with it.  (A peer
\* that closes while still in the accept queue is accepted all the same and is
\* seen as one that closes right after.)
Hangup ==
  /\ ~aborted
  /\ \E k \in Conns :
       /\ conn[k] = "estab"
       /\ ~hung[k]
       /\ hung' = [hung EXCEPT ![k] = TRUE]
       /\ recv' = [recv EXCEPT ![k] = << >>]
  /\ UNCHANGED << pc, mutex, client_fd, listenVars, writerVars, fdtab,
                  nclose, conn, pendingQ, startVars, aborted, budgetVars >>

\* ---- the system ------------------------------------------------------------
Next ==
  \/ \E p \in Prod : writer_write_lock(p)
  \/ \E p \in Prod : writer_write_some(p)
  \/ \E p \in Prod : writer_write_fail(p)
  \/ \E p \in Prod : writer_write_done(p)
  \/ \E p \in Prod : writer_write_return(p)
  \/ \E t \in Threads : writer_stop_lock(t)
  \/ \E t \in Threads : writer_stop_close(t)
  \/ \E t \in Threads : writer_stop_clear(t)
  \/ listen_socket_listen
  \/ listen_socket_accept
  \/ listen_socket_accept_fail
  \/ listen_socket_publish
  \/ listen_socket_unlock
  \/ listen_socket_start
  \/ listen_socket_arm
  \/ listen_socket_poll_ready
  \/ listen_socket_poll_error
  \/ listen_socket_clear
  \/ eventlog_socket_start
  \/ open_socket_bind
  \/ open_socket_spawn
  \/ wait_for_connection_test
  \/ eventlog_socket_start_return
  \/ wait_for_connection_spurious
  \/ Connect
  \/ Hangup

Spec == Init /\ [][Next]_vars

\* Scheduling: every thread that can take a step of the program eventually
\* takes one.  Events from outside (a peer connecting or closing, a producer
\* making a call, a fault) are not owed.
Fairness ==
  /\ \A p \in Prod : WF_vars(writer_write_some(p) \/ writer_write_fail(p)
                                \/ writer_write_done(p))
  /\ \A p \in Prod : WF_vars(writer_write_return(p))
  /\ WF_vars(writer_stop_lock(L))
  /\ \A t \in Threads : WF_vars(writer_stop_close(t) \/ writer_stop_clear(t))
  /\ WF_vars(listen_socket_listen)
  /\ WF_vars(listen_socket_accept)
  /\ WF_vars(listen_socket_publish)
  /\ WF_vars(listen_socket_unlock)
  /\ WF_vars(listen_socket_start)
  /\ WF_vars(listen_socket_arm)
  /\ WF_vars(listen_socket_poll_ready)
  /\ WF_vars(listen_socket_clear)
  /\ WF_vars(eventlog_socket_start)
  /\ WF_vars(open_socket_bind)
  /\ WF_vars(open_socket_spawn)
  /\ WF_vars(wait_for_connection_test)
  /\ WF_vars(eventlog_socket_start_return)

FairSpec == Spec /\ Fairness

\* ---- properties ------------------------------------------------------------
\* C1: single client.  The one slot client_fd records at most one client, and
\* any client it records is the descriptor the listener accepted in its
\* current iteration; the listener is at accept only while client_fd is -1.
C1_SingleClient ==
  /\ client_fd \in Fds \cup {NoFd}
  /\ client_fd # NoFd => published /\ client_fd = fd
  /\ pc[L] = "accept" => client_fd = NoFd

\* C1's case: the listener is back at accept after a client, with the next
\* peer already in the queue.
C1_Witness ==
  /\ pc[L] = "accept"
  /\ \E k \in Conns : conn[k] = "estab"
  /\ pendingQ # << >>

\* C2: a writer_write call that ends without an I/O error has put on the
\* socket exactly buffer[0..length), each byte once and in order, whatever
\* the sizes write(2) accepted.
C2_DeliversBuffer ==
  \A p \in Prod :
    pc[p] = "w_loop" /\ wsz[p] = 0
      => wsent[p] = Chunk(wcall[p], wtag[p], 0, wlen[p])

\* C3: a writer_write call made while client_fd is -1 returns true at once,
\* with the mutex released and nothing written to any socket.
C3_NoClientNoIO ==
  [][\A p \in Prod :
       (pc[p] = "idle" /\ pc'[p] \in {"w_ret", "w_loop"} /\ client_fd = NoFd)
         => /\ pc'[p] = "w_ret"
            /\ wout'[p] = "noclient"
            /\ wret'[p] = TRUE
            /\ mutex' = Free
            /\ recv' = recv
            /\ fdtab' = fdtab]_vars

\* C3's case: a call has returned that found no client.
C3_Witness ==
  \E p \in Prod : pc[p] = "w_ret" /\ wout[p] = "noclient" /\ client_fd = NoFd

\* C4: writer_write returns true on every path (no client, all bytes sent,
\* write error), with the mutex released; the step in which write(2) fails is
\* the call's last, so no further byte of the buffer is sent.
C4_AlwaysAccepted ==
  [][\A p \in Prod :
       /\ pc'[p] = "w_ret" => wret'[p] = TRUE /\ mutex' # p
       /\ (wout[p] = "running" /\ wout'[p] = "error")
            => pc'[p] = "w_ret" /\ recv' = recv]_vars

\* C4's case: a call has returned after a failed write.
C4_Witness ==
  \E p \in Prod : pc[p] = "w_ret" /\ wout[p] = "error" /\ wret[p] = TRUE

\* C5 as stated: the step in which a write to the client fails leaves that
\* descriptor no longer recorded in client_fd.
C5_WriteFailureTearsDown ==
  [][\A p \in Prod :
       (wout[p] = "running" /\ wout'[p] = "error") => client_fd' # wfd[p]]_vars

\* C5 as the code has it: a failed write leaves client_fd as it was; client_fd
\* is set to -1 only by the listener's teardown (line 129) and by writer_stop
\* (line 77).
C5_WriteFailureKeepsClient ==
  [][/\ \A p \in Prod :
          (wout[p] = "running" /\ wout'[p] = "error") => client_fd' = client_fd
     /\ (client_fd # NoFd /\ client_fd' = NoFd)
          => pc[L] = "clear" \/ \E t \in Threads : pc[t] = "s_clear"]_vars

\* C5's case: a write has failed and its descriptor is still the recorded
\* client.
C5_Witness ==
  \E p \in Prod : pc[p] = "w_ret" /\ wout[p] = "error" /\ client_fd # NoFd

\* C7: every byte a peer has received comes from a writer_write call that read
\* that peer's connection as the current client: nothing from a call made with
\* no client, or for an earlier client, reaches a later one.
C7_NoCrossSession ==
  \A k \in Conns : \A i \in 1 .. Len(recv[k]) : recv[k][i][2] = k

\* C7's case: a client that connected after an earlier one left has received
\* bytes.
C7_Witness ==
  \E k \in Conns : \E j \in Conns : j < k /\ hung[j] /\ recv[k] # << >>

\* C9: once open_socket has bound the socket and gone past pthread_create,
\* either the listener thread exists or the process has aborted; and a failed
\* listen aborts.
C9_SetupFailuresFatal ==
  (listen_fd # NoFd /\ pc[S] # "spawn")
     => (pc[L] # "unspawned" \/ aborted)

\* C10: the listener is at the startEventLogging call only after it has
\* stored the accepted descriptor into client_fd, which it did holding the
\* mutex, and it no longer holds the mutex.
C10_StartAfterPublish ==
  /\ pc[L] = "unlock" => mutex = L /\ client_fd = fd
  /\ pc[L] = "start" => published /\ mutex # L

\* C10's case: the listener is about to call the hook for an accepted client.
C10_Witness ==
  pc[L] = "start" /\ fd # NoFd /\ client_fd = fd

\* The listener is serving the connection k: it has accepted it and has not
\* yet left the hangup wait.
Serving(k) ==
  /\ pc[L] \in {"lock", "unlock", "start", "arm", "poll"}
  /\ ConnOf(fd) = k

\* The start call is inside wait_for_connection.
Waiting == pc[S] \in {"wf_lock", "wf_wait", "wf_woken"}

\* C6: restart on disconnect.  Once the peer the listener is serving has
\* closed, the listener (under fair scheduling of every thread) completes the
\* teardown and is in accept again, ready to publish the next client.
C6_RestartOnHangup ==
  \A k \in Conns : (Serving(k) /\ hung[k]) ~> (pc[L] = "accept")

\* C8: a blocking start leaves wait_for_connection only while a client is
\* recorded in client_fd.
C8_NoReturnBeforePublish ==
  [][(Waiting /\ ~Waiting') => client_fd # NoFd]_vars

\* C8: blocking start.  A call that is inside wait_for_connection while a
\* client is connected returns (under fair scheduling of every thread), unless
\* that client does not stay connected: its peer closes, or its descriptor is
\* closed on this side.
C8_BlockingStartReturns ==
  \A k \in Conns :
    (Waiting /\ conn[k] = "estab") ~> (~Waiting \/ hung[k] \/ nclose[k] > 0)

\* A thread is inside writer_stop, holding the mutex.
InStop(t) == pc[t] \in {"s_close", "s_clear"}

\* C11: writer_stop is idempotent.  Every writer_stop ends with client_fd = -1
\* and the mutex released; a writer_stop that finds client_fd = -1 skips the
\* close and changes neither client_fd nor any descriptor; and no
\* connection's socket is closed more than once.
C11_StopIdempotent ==
  [][/\ \A t \in Threads :
          /\ (InStop(t) /\ ~InStop(t)') => client_fd' = NoFd /\ mutex' = Free
          /\ (~InStop(t) /\ InStop(t)' /\ client_fd = NoFd)
               => pc'[t] = "s_clear" /\ client_fd' = NoFd /\ fdtab' = fdtab
          /\ (InStop(t) /\ pc'[t] # pc[t] /\ client_fd = NoFd)
               => client_fd' = NoFd /\ fdtab' = fdtab /\ nclose' = nclose
     /\ \A k \in Conns : nclose'[k] <= 1]_vars

\* C11's case: a second writer_stop is under way after an earlier one closed
\* and cleared the client of the listener's current iteration.
C11_Witness ==
  \E p \in Prod :
    /\ pc[p] = "s_clear" /\ client_fd = NoFd
    /\ published /\ fd # NoFd /\ fdtab[fd] = 0

\* C12: with no address (no argument and no GHC_EVENTLOG_SOCKET),
\* eventlog_socket_start returns at once: no socket is created, no listener
\* is spawned, nothing is listened on or accepted, and eventLogStatus() stays
\* what it was, running included.
C12_NoAddressNoEffect ==
  [][~sock_path
       => /\ pc[S] = "entry" => pc'[S] \in {"entry", "returned"}
          /\ status' = status
          /\ listen_fd' = NoFd /\ ~listening'
          /\ pc'[L] = "unspawned"
          /\ fdtab' = fdtab /\ pendingQ' = pendingQ /\ conn' = conn]_vars

\* C12's case: the call has returned with no address while the eventlog was
\* running.
C12_Witness ==
  ~sock_path /\ pc[S] = "returned" /\ status = "running" /\ initialized

\* C13: lock discipline.  Every step that changes client_fd is taken by a
\* thread that holds the mutex in that step; hence client_fd does not change
\* while a writer_write call is in its write loop (which holds the mutex).
C13_LockDiscipline ==
  [][client_fd' # client_fd
       => /\ \E t \in Threads :
               pc'[t] # pc[t] /\ (mutex = t \/ mutex' = t)
          /\ \A p \in Prod : pc[p] # "w_loop"]_vars

\* C14: writer_write calls are serialized.  On every peer's stream the bytes
\* appear in the order in which their calls took the mutex: all bytes of the
\* call that locked first come before any byte of a call that locked later,
\* so the bytes of two calls never interleave.
C14_WritesSerialized ==
  \A k \in Conns :
    \A i \in 1 .. Len(recv[k]) : \A j \in 1 .. Len(recv[k]) :
      i < j => recv[k][i][1] <= recv[k][j][1]

\* C14's case: one peer has received bytes of two calls while the later call
\* is still in its write loop.
C14_Witness ==
  \E k \in Conns : \E p \in Prod :
    /\ pc[p] = "w_loop" /\ wsent[p] # << >> /\ wtag[p] = k
    /\ \E i \in 1 .. Len(recv[k]) : recv[k][i][1] < wcall[p]

\* C15: the listener leaves the hangup wait for the teardown only when poll
\* reports the descriptor (peer hangup, or a descriptor that is not open); a
\* poll that fails with a transient error (EINTR, EAGAIN: the only failures
\* poll_error produces) is followed by the same wait.
C15_HangupWaitOutcomes ==
  [][pc[L] = "poll" /\ ~PollReady => pc'[L] = "poll"]_vars

\* C16: a failing accept does not wedge the listener.  Once accept has
\* returned -1, the listener (under fair scheduling of every thread) gets
\* back to accept, where it can take the next peer.
C16_AcceptFailureRecovers ==
  (pc[L] = "lock" /\ fd = NoFd) ~> (pc[L] = "accept")

\* C17: no descriptor leak.  When the listener is back at accept, the socket
\* of every client it accepted and whose peer has closed has been closed,
\* exactly once.
C17_NoDescriptorLeak ==
  pc[L] = "accept"
    => \A k \in Conns : conn[k] = "estab" /\ hung[k] => nclose[k] = 1

\* The places where a thread holds the mutex: the listener between its lock
\* and unlock, any thread inside writer_stop, a producer in the write loop.
HoldsAt(t) ==
  IF t = L THEN {"unlock", "s_close", "s_clear"}
  ELSE IF t = S THEN {}
  ELSE {"w_loop", "s_close", "s_clear"}

\* C18: deadlock freedom.  The mutex is held only by a thread between a lock
\* and the matching unlock: never by the listener in accept or poll, never by
\* the starter in pthread_cond_wait, never by a producer whose call has
\* returned; and (under fair scheduling of every thread) whoever holds the
\* mutex releases it, unless the process aborts, so nobody waits for it
\* forever.
C18_DeadlockFree ==
  /\ [](\A t \in Threads : mutex = t => pc[t] \in HoldsAt(t))
  /\ \A t \in Threads : (mutex = t) ~> (mutex # t \/ aborted)

\* C18's case: the listener (in the writer_stop of its teardown) and the
\* blocking start both wait for the mutex while a producer holds it in its
\* write loop.
C18_Witness ==
  \E p \in Prod :
    /\ mutex = p /\ pc[p] = "w_loop"
    /\ pc[L] = "s_lock"
    /\ pc[S] \in {"wf_lock", "wf_woken"}

\* C19: after a successful accept, the descriptor the listener puts into
\* pfd.fd (its unlocked read of client_fd at line 114) is the one it accepted
\* in this iteration, and that descriptor is open: the listener never starts
\* its wait on -1 or on a closed descriptor.
C19_ArmsAcceptedDescriptor ==
  [][(pc[L] = "arm" /\ pc'[L] = "poll" /\ fd # NoFd)
       => pfd' = fd /\ fdtab[fd] # 0]_vars

\* The control flow of listen_socket (lines 92-134) as steps of the listener,
\* with the writer_stop reached through endEventLogging.
ListenerLoop ==
  { << "unspawned", "listen" >>, << "listen", "accept" >>,
    << "accept", "lock" >>, << "lock", "unlock" >>,
    << "unlock", "start" >>, << "start", "arm" >>,
    << "arm", "poll" >>, << "poll", "clear" >>,
    << "clear", "s_lock" >>, << "s_lock", "s_close" >>,
    << "s_lock", "s_clear" >>, << "s_close", "s_clear" >>,
    << "s_clear", "listen" >> }

\* C20: the listener's hooks alternate, start first.  The listener moves only
\* along its loop, on which every accept (accept -> lock) is followed by the
\* one startEventLogging call (start -> arm), and that by the one
\* endEventLogging call (clear -> s_lock), before the next accept; the start
\* hook leaves the eventlog running and the stop hook leaves it stopped.
C20_HooksAlternate ==
  [][pc'[L] # pc[L]
       => /\ << pc[L], pc'[L] >> \in ListenerLoop
          /\ pc[L] = "start" => status' = "running"
          /\ pc[L] = "clear" => status' = "stopped"
          /\ status' # status => pc[L] \in {"start", "clear"}]_vars

\* C20's case: the listener is at accept again after a whole iteration for a
\* client, with the eventlog stopped.
C20_Witness ==
  /\ pc[L] = "accept"
  /\ status = "stopped"
  /\ \E k \in Conns : conn[k] = "estab"

====
